---- MODULE Spec2Model ----
(***************************************************************************)
(* The interactive viewport controller of pdfjs-coordinates (viewer.mjs,   *)
(* latest variant): page navigation, document load/reload, the zoom step   *)
(* controller, the asynchronous renderPage, the touch gesture handlers,    *)
(* the pointer overlay with its tooltip, and the click-to-copy feedback.   *)
(*                                                                         *)
(* JavaScript is single threaded: every handler and every promise          *)
(* continuation runs to completion, so each is one action.  The two        *)
(* suspension points of renderPage (await getPage, await render) and the   *)
(* two of a load (FileReader, getDocument) are the places where other      *)
(* handlers interleave.                                                    *)
(***************************************************************************)
EXTENDS Integers, Sequences, FiniteSets

VARIABLES
    pdfDoc,          \* document handle: 0 = null, else the file it was decoded from
    pdfData,         \* byte buffer kept for reload: 0 = null, else the file
    pageNum,         \* current page index
    scale,           \* current scale, see ScaleValues
    zoomSelect,      \* value of the <select>: an option (hundredths) or 0 = ""
    retain,          \* retainViewport.checked
    helpOpen,        \* helpOverlay.style.display === 'flex'
    loads,           \* loads in flight, in issue order
    renders,         \* renderPage calls in flight, in issue order
    pdfCanvas,       \* content canvas: viewport it was sized for, pixels it shows
    overlayCanvas,   \* overlay canvas: viewport it was sized for
    transform,       \* pdfCtx transform: "identity" or "dpr"
    pageIndicator,   \* <<X, N>> of "Page X / N"; <<0, 0>> before the first render
    touchStartX,     \* -1 = null, else clientX of the single touch
    touchStartDist,  \* -1 = null, else baseline distance of the two touches
    touches,         \* number of fingers on the canvas (the platform's state)
    latest,          \* the latest issued render request (history)
    ev,              \* the last handler that ran, its branch and its effect (history)
    DPR,             \* window.devicePixelRatio || 1, read once at startup
    rect,            \* pdfCanvas.getBoundingClientRect(): CSS width and height
    lastCssX,        \* stored pointer position, CSS px
    lastCssY,
    nudged,          \* Alt+Arrow nudges since the last pointer move (history)
    hover,           \* the pointer is over the canvas (the platform's state)
    coordsDiv,       \* the status line: a coordinate text
    tooltip,         \* [text, shown, left, top]
    crosshair,       \* what the overlay canvas shows: a position or NoCross
    autoCopy,        \* autoCopyChk.checked
    clipboard,       \* the text last written to the clipboard
    copyTimeout,     \* handle of the last acknowledgement timer, 0 = null
    timers           \* handles of the pending timers

vars == <<pdfDoc, pdfData, pageNum, scale, zoomSelect, retain, helpOpen, loads,
          renders, pdfCanvas, overlayCanvas, transform, pageIndicator,
          touchStartX, touchStartDist, touches, latest, ev,
          DPR, rect, lastCssX, lastCssY, nudged, hover, coordsDiv, tooltip,
          crosshair, autoCopy, clipboard, copyTimeout, timers>>

----------------------------------------------------------------------------
(* Bounds of the model *)

\* render requests in flight at once
MaxRenders == 2

\* loads in flight at once
MaxLoads == 2

\* pinch steps away from a discrete step, in either direction
MaxPinch == 1

\* fingers the platform reports
MaxFingers == 2

----------------------------------------------------------------------------
(* Documents.  File f decodes to a document of NumPages[f] pages; 0 pages  *)
(* stands for a byte buffer the decoder rejects.                           *)

NumPages == <<3, 1, 0>>

Files == DOMAIN NumPages

Null == 0

NullTouch == -1

----------------------------------------------------------------------------
(* Scale.  A JavaScript number reached from an option value by n pinch     *)
(* steps: [m, k] is (m / 100) * 1.1^k, m an option value in hundredths.    *)
(* For the option values below and |k| <= 3, IEEE-754 doubles agree with   *)
(* this whatever the order of the steps: every sequence of *1.1 and /1.1   *)
(* with the same net count gives the same double, a net count of 0 gives   *)
(* the option value back, and no other net count gives an option value.    *)
(* NaN is [m |-> 0, k |-> 0].                                              *)

\* option values of the zoom <select>, in hundredths (index.html)
ZoomOptions == <<50, 100, 150, 200, 300>>

\* the option selected at startup
DefaultZoom == 150

NaN == [m |-> 0, k |-> 0]

Num(m) == [m |-> m, k |-> 0]

\* const zoomSteps = Array.from(zoomSelect.options).map(o => parseFloat(o.value))
zoomSteps == [i \in DOMAIN ZoomOptions |-> Num(ZoomOptions[i])]

ScaleValues ==
    {NaN} \cup {[m |-> ZoomOptions[i], k |-> k] :
                    i \in DOMAIN ZoomOptions, k \in (0 - MaxPinch)..MaxPinch}

\* parseFloat(zoomSelect.value)
ParseFloat(v) == IF v = 0 THEN NaN ELSE Num(v)

\* zoomSelect.value = s.toString(): selects the option with that value, and
\* leaves the select empty (value "") when no option has it
SelectValue(s) ==
    IF s.k = 0 /\ \E i \in DOMAIN ZoomOptions : ZoomOptions[i] = s.m
    THEN s.m ELSE 0

\* scale *= 1.1 and scale /= 1.1
Times11(s) == IF s = NaN THEN NaN ELSE [s EXCEPT !.k = @ + 1]

Over11(s) == IF s = NaN THEN NaN ELSE [s EXCEPT !.k = @ - 1]

\* zoomSteps.indexOf(s), 1-based, 0 when absent (-1 in the code)
IndexOf(s) ==
    IF \E i \in DOMAIN zoomSteps : zoomSteps[i] = s
    THEN CHOOSE i \in DOMAIN zoomSteps :
            zoomSteps[i] = s /\ \A j \in DOMAIN zoomSteps : zoomSteps[j] = s => i <= j
    ELSE 0

----------------------------------------------------------------------------
(* Canvas contents *)

\* a viewport: the page of a document at a scale; doc = 0 is "none yet"
View(d, n, s) == [doc |-> d, num |-> n, scale |-> s]

Blank == View(0, 0, NaN)

NoEvent == [op |-> "init", how |-> "", did |-> "none"]

\* op: the handler; how: the branch or rule it took; did: its effect
Event(op, how, did) == [op |-> op, how |-> how, did |-> did]

Remove(seq, i) == [j \in 1..(Len(seq) - 1) |-> IF j < i THEN seq[j] ELSE seq[j + 1]]

----------------------------------------------------------------------------
(* Pointer overlay: geometry and coordinate text.  Lengths are CSS pixels. *)
(* Page sizes are whole points and pointer offsets whole pixels, so at a   *)
(* discrete zoom step the viewport is a whole number of pixels; after a    *)
(* pinch its fraction is dropped.                                          *)

\* Alt+Arrow nudges between two pointer moves
MaxNudge == 2

\* copies (acknowledgement timers started) in one run
MaxCopies == 2

\* values of window.devicePixelRatio
DprValues == {1, 2}

\* the natural size of every page, in points (1/72 inch)
PageSize == [w |-> 100, h |-> 80]

\* the size of a canvas element that was never sized (HTML default)
DefaultRect == [w |-> 300, h |-> 150]

\* const TT_OFFSET = 8
TT_OFFSET == 8

\* n * 1.1^k, fraction dropped at each step
RECURSIVE Times11k(_, _)
Times11k(n, k) ==
    IF k = 0 THEN n
    ELSE IF k > 0 THEN Times11k((n * 11) \div 10, k - 1)
    ELSE Times11k((n * 10) \div 11, k + 1)

\* page.getViewport({ scale }).width and .height for a scale that is a number
CssSize(s) ==
    [w |-> Times11k(PageSize.w * s.m, s.k) \div 100,
     h |-> Times11k(PageSize.h * s.m, s.k) \div 100]

RECURSIVE Power(_, _)
Power(b, e) == IF e = 0 THEN 1 ELSE b * Power(b, e - 1)

\* Math.round(css * DPR) for css = pts * scale: pts * m * 1.1^k * DPR / 100
\* rounded half up; the bitmap size set from NaN is 0
BufferDim(pts, s) ==
    IF s = NaN THEN 0
    ELSE LET e == IF s.k >= 0 THEN s.k ELSE 0 - s.k
             num == pts * s.m * DPR * Power(IF s.k >= 0 THEN 11 ELSE 10, e)
             den == 100 * Power(IF s.k >= 0 THEN 10 ELSE 11, e)
         IN  (2 * num + den) \div (2 * den)

\* pdfCanvas.width = Math.round(cssW * DPR); pdfCanvas.height = Math.round(cssH * DPR)
BufferSize(vp) ==
    [w |-> BufferDim(PageSize.w, vp.scale), h |-> BufferDim(PageSize.h, vp.scale)]

\* the overlay buffer given the CSS size of the viewport
OverlayBufferCss(c) ==
    IF c.vp.scale = NaN THEN [w |-> 0, h |-> 0] ELSE CssSize(c.vp.scale)

\* overlayCanvas.width = pdfCanvas.width; overlayCanvas.height = pdfCanvas.height
OverlayBuffer(c) == [w |-> c.w, h |-> c.h]

\* a canvas element that was never sized has the HTML default bitmap
UnsizedCanvas == [vp |-> Blank, w |-> DefaultRect.w, h |-> DefaultRect.h]

\* the conversion applied to the offset in buffer pixels
CmOfBufferPx(px, s) ==
    IF s = NaN THEN 0 - 2
    ELSE (2 * px * DPR * 352778 + 1000 * s.m) \div (2000 * s.m)

\* ((px / s) * PDF_UNIT_CM).toFixed(2) in hundredths of a centimetre,
\* PDF_UNIT_CM = 0.0352778: px * 352778 / (1000 * m), rounded to the nearest
\* integer (exact at a discrete step; no offset below 3125 px gives a tie).
\* After a pinch the quotient is carried in thousandths of a hundredth.
\* -2 stands for "NaN".
Cm(px, s) ==
    IF s = NaN THEN 0 - 2
    ELSE LET n == px * 352778
             d == 1000 * s.m
         IN  IF s.k = 0 THEN (2 * n + d) \div (2 * d)
             ELSE LET v == (n \div d) * 1000 + ((n % d) \div s.m)
                  IN  (Times11k(v, 0 - s.k) + 500) \div 1000

\* a text: pre times "Copied: " followed by "(X.XXcm,Y.YYcm)", x and y in
\* hundredths; NoText is the empty string
NoText == [pre |-> 0, x |-> 0 - 1, y |-> 0 - 1]

\* const coordText = `(${(ptX*PDF_UNIT_CM).toFixed(2)}cm,${(ptY*PDF_UNIT_CM).toFixed(2)}cm)`
CoordText(x, y, s) == [pre |-> 0, x |-> Cm(x, s), y |-> Cm(y, s)]

\* `Copied: ${txt}`
Copied(txt) == [txt EXCEPT !.pre = @ + 1]

NoCross == [x |-> 0 - 1, y |-> 0 - 1]

HiddenTooltip == [text |-> NoText, shown |-> FALSE, left |-> 0, top |-> 0]

pointerVars == <<DPR, rect, lastCssX, lastCssY, nudged, hover, coordsDiv,
                 tooltip, crosshair, autoCopy, clipboard, copyTimeout, timers>>

\* the pointer and clipboard state after construction; the auto-copy box
\* starts unticked here, ToggleAutoCopy reaches the other value
InitPointer ==
    /\ DPR \in DprValues
    /\ lastCssX = 0
    /\ lastCssY = 0
    /\ nudged = 0
    /\ hover = FALSE
    /\ coordsDiv = NoText
    /\ tooltip = HiddenTooltip
    /\ crosshair = NoCross
    /\ autoCopy = FALSE
    /\ clipboard = NoText
    /\ copyTimeout = Null
    /\ timers = {}

----------------------------------------------------------------------------
Init ==
    /\ pdfDoc = Null
    /\ pdfData = Null
    /\ pageNum = 1
    /\ scale = ParseFloat(DefaultZoom)
    /\ zoomSelect = DefaultZoom
    /\ retain \in BOOLEAN
    /\ helpOpen = FALSE
    /\ loads = <<>>
    /\ renders = <<>>
    /\ pdfCanvas = [vp |-> Blank, pix |-> Blank,
                    w |-> UnsizedCanvas.w, h |-> UnsizedCanvas.h]
    /\ overlayCanvas = UnsizedCanvas
    /\ transform = "identity"
    /\ pageIndicator = <<0, 0>>
    /\ touchStartX = NullTouch
    /\ touchStartDist = NullTouch
    /\ touches = 0
    /\ latest = Blank
    /\ ev = NoEvent
    /\ rect = DefaultRect
    /\ InitPointer

----------------------------------------------------------------------------
(* renderPage (async): the call, the continuation after getPage, the       *)
(* continuation after render                                               *)

Min(a, b) == IF a < b THEN a ELSE b

Max(a, b) == IF a > b THEN a ELSE b

NotLast(rs) == [j \in DOMAIN rs |-> [rs[j] EXCEPT !.last = FALSE]]

\* The synchronous part of renderPage(num): pdfDoc.getPage(num) is evaluated
\* at once.  With pdfDoc null it throws inside the async function: the promise
\* is rejected and nothing is in flight.
renderPage(doc, num) ==
    IF doc = Null
    THEN /\ renders' = renders
         /\ latest' = latest
    ELSE /\ Len(renders) < MaxRenders
         /\ renders' = Append(NotLast(renders),
                              [doc |-> doc, num |-> num, stage |-> "getPage",
                               vp |-> Blank, last |-> TRUE])
         /\ latest' = View(doc, num, NaN)

noRender == UNCHANGED <<renders, latest>>

\* page.getViewport({ scale }): the scale is read when getPage has resolved
Viewport(r) == View(r.doc, r.num, scale)

\* await pdfDoc.getPage(num) resolves: both canvases are resized (which clears
\* them), the DPR transform is set and page.render is started.  A style width
\* of "NaNpx" is no valid declaration and leaves the CSS size as it was.
GetPageDone(i) ==
    /\ i \in DOMAIN renders
    /\ renders[i].stage = "getPage"
    /\ LET vp == Viewport(renders[i]) IN
        /\ pdfCanvas' = [vp |-> vp, pix |-> Blank,
                         w |-> BufferSize(vp).w, h |-> BufferSize(vp).h]
        /\ overlayCanvas' = [vp |-> pdfCanvas'.vp,
                             w |-> OverlayBuffer(pdfCanvas').w,
                             h |-> OverlayBuffer(pdfCanvas').h]
        /\ renders' = [renders EXCEPT ![i].stage = "render", ![i].vp = vp]
        /\ rect' = IF vp.scale = NaN THEN rect ELSE CssSize(vp.scale)
    /\ crosshair' = NoCross
    /\ transform' = "dpr"
    /\ ev' = Event("getPageDone", "", "resize")
    /\ UNCHANGED <<pdfDoc, pdfData, pageNum, scale, zoomSelect, retain, helpOpen,
                   loads, pageIndicator, touchStartX, touchStartDist, touches,
                   latest>>
    /\ UNCHANGED <<DPR, lastCssX, lastCssY, nudged, hover, coordsDiv, tooltip,
                   autoCopy, clipboard, copyTimeout, timers>>

\* the indicator written from the request's own page and document
IndicatorOfRequest(r) == <<r.num, NumPages[r.doc]>>

\* pageIndicator.textContent = `Page ${pageNum} / ${pdfDoc.numPages}`
IndicatorText(r) == <<pageNum, NumPages[pdfDoc]>>

\* the rasterization of r has drawn its page into the content canvas
Painted(r) == r.vp

\* await page.render(...).promise resolves: the page has been drawn into the
\* canvas as it is now, the transform is reset, the indicator is written
RenderDone(i) ==
    /\ i \in DOMAIN renders
    /\ renders[i].stage = "render"
    /\ pdfCanvas' = [pdfCanvas EXCEPT !.pix = Painted(renders[i])]
    /\ transform' = "identity"
    /\ pageIndicator' = IndicatorText(renders[i])
    /\ renders' = Remove(renders, i)
    /\ ev' = Event("renderDone", "", IF renders[i].last THEN "latest" ELSE "stale")
    /\ UNCHANGED <<pdfDoc, pdfData, pageNum, scale, zoomSelect, retain, helpOpen,
                   loads, overlayCanvas, touchStartX, touchStartDist, touches,
                   latest>>
    /\ UNCHANGED pointerVars

----------------------------------------------------------------------------
(* Loading: file input / drop -> FileReader -> loadPDF -> getDocument      *)

\* fileInput 'change' and canvas 'drop' with a file of type application/pdf:
\* a FileReader is started
FileChosen(f) ==
    /\ f \in Files
    /\ Len(loads) < MaxLoads
    /\ loads' = Append(NotLast(loads),
                       [file |-> f, stage |-> "read", keep |-> FALSE,
                        reload |-> FALSE, last |-> TRUE])
    /\ ev' = Event("fileChosen", "", "read")
    /\ noRender
    /\ UNCHANGED <<pdfDoc, pdfData, pageNum, scale, zoomSelect, retain, helpOpen,
                   pdfCanvas, overlayCanvas, transform, pageIndicator,
                   touchStartX, touchStartDist, touches>>
    /\ UNCHANGED pointerVars

\* loadPDF(data) up to the promise: keep is read now, the decode is started.
\* last tells whether no load was requested after this one.
loadPDF(ls, data, isReload) ==
    Append(ls, [file |-> data, stage |-> "decode", keep |-> retain,
                reload |-> isReload, last |-> TRUE])

\* the decode started by r.onload belongs to the request that chose the file
SameRequest(ls, r) == [ls EXCEPT ![Len(ls)].last = r.last]

\* r.onload: pdfData = new Uint8Array(r.result); loadPDF(pdfData)
ReadDone(i) ==
    /\ i \in DOMAIN loads
    /\ loads[i].stage = "read"
    /\ pdfData' = loads[i].file
    /\ loads' = SameRequest(loadPDF(Remove(loads, i), pdfData', FALSE), loads[i])
    /\ ev' = Event("readDone", "", "decode")
    /\ noRender
    /\ UNCHANGED <<pdfDoc, pageNum, scale, zoomSelect, retain, helpOpen,
                   pdfCanvas, overlayCanvas, transform, pageIndicator,
                   touchStartX, touchStartDist, touches>>
    /\ UNCHANGED pointerVars

\* the clamp without its upper bound
ClampPageLow(p, n) == Max(1, p)

\* pageNum = Math.min(Math.max(1, pageNum), pdfDoc.numPages)
ClampPage(p, n) == Min(Max(1, p), n)

\* every load resets the page, as loadPDF did before the retention preference
LoadedPageReset(keep, p) == 1

\* if (!keep) { pageNum = 1; ... }
LoadedPage(keep, p) == IF keep THEN p ELSE 1

\* if (!keep) { ...; scale = parseFloat(zoomSelect.value); }
LoadedScale(keep, s) == IF keep THEN s ELSE ParseFloat(zoomSelect)

\* the decoder accepts whatever bytes it is given
DecodesAll(f) == TRUE

\* pdfjsLib.getDocument(data).promise resolves; it rejects for bytes that are
\* no document
Decodes(f) == NumPages[f] > 0

\* getDocument(data).promise resolves with the document: the .then callback
DecodeDone(i) ==
    /\ i \in DOMAIN loads
    /\ loads[i].stage = "decode"
    /\ Decodes(loads[i].file)
    /\ pdfDoc' = loads[i].file
    /\ pageNum' = ClampPage(LoadedPage(loads[i].keep, pageNum), NumPages[pdfDoc'])
    /\ scale' = LoadedScale(loads[i].keep, scale)
    /\ zoomSelect' = SelectValue(scale')
    /\ renderPage(pdfDoc', pageNum')
    /\ loads' = Remove(loads, i)
    /\ ev' = Event("decodeDone", IF loads[i].reload THEN "reload" ELSE "load",
                   IF ~loads[i].keep THEN "reset"
                   ELSE IF pageNum' # pageNum THEN "clamped" ELSE "keep")
    /\ UNCHANGED <<pdfData, retain, helpOpen, pdfCanvas, overlayCanvas, transform,
                   pageIndicator, touchStartX, touchStartDist, touches>>
    /\ UNCHANGED pointerVars

\* getDocument(data).promise rejects: there is no rejection handler
DecodeFail(i) ==
    /\ i \in DOMAIN loads
    /\ loads[i].stage = "decode"
    /\ ~Decodes(loads[i].file)
    /\ loads' = Remove(loads, i)
    /\ ev' = Event("decodeFail", IF loads[i].reload THEN "reload" ELSE "load",
                   "none")
    /\ noRender
    /\ UNCHANGED <<pdfDoc, pdfData, pageNum, scale, zoomSelect, retain, helpOpen,
                   pdfCanvas, overlayCanvas, transform, pageIndicator,
                   touchStartX, touchStartDist, touches>>
    /\ UNCHANGED pointerVars

\* the user ticks or unticks "retain viewport"
ToggleRetain ==
    /\ retain' = ~retain
    /\ ev' = Event("toggleRetain", "", "none")
    /\ noRender
    /\ UNCHANGED <<pdfDoc, pdfData, pageNum, scale, zoomSelect, helpOpen, loads,
                   pdfCanvas, overlayCanvas, transform, pageIndicator,
                   touchStartX, touchStartDist, touches>>
    /\ UNCHANGED pointerVars

----------------------------------------------------------------------------
(* Page navigation and zoom controls                                       *)

canvasVars == <<pdfCanvas, overlayCanvas, transform, pageIndicator>>

touchVars == <<touchStartX, touchStartDist, touches>>

\* pageNum--, renderPage(pageNum)  and  pageNum++, renderPage(pageNum)
PageStep(delta) ==
    /\ pageNum' = pageNum + delta
    /\ renderPage(pdfDoc, pageNum')

\* prevBtn 'click': if (pageNum > 1) pageNum--, renderPage(pageNum)
PrevClick ==
    /\ IF pageNum > 1
       THEN PageStep(-1) /\ ev' = Event("prevClick", "", "prev")
       ELSE UNCHANGED pageNum /\ noRender /\ ev' = Event("prevClick", "", "none")
    /\ UNCHANGED <<pdfDoc, pdfData, scale, zoomSelect, retain, helpOpen, loads>>
    /\ UNCHANGED <<canvasVars, touchVars>>
    /\ UNCHANGED pointerVars

\* nextBtn 'click': if (pageNum < pdfDoc.numPages) pageNum++, renderPage(pageNum)
\* pdfDoc.numPages throws a TypeError while pdfDoc is null
NextClick ==
    /\ IF pdfDoc = Null
       THEN UNCHANGED pageNum /\ noRender /\ ev' = Event("nextClick", "", "throw")
       ELSE IF pageNum < NumPages[pdfDoc]
       THEN PageStep(1) /\ ev' = Event("nextClick", "", "next")
       ELSE UNCHANGED pageNum /\ noRender /\ ev' = Event("nextClick", "", "none")
    /\ UNCHANGED <<pdfDoc, pdfData, scale, zoomSelect, retain, helpOpen, loads>>
    /\ UNCHANGED <<canvasVars, touchVars>>
    /\ UNCHANGED pointerVars

\* zoomSelect 'change': the user picked option v;
\* scale = parseFloat(zoomSelect.value); renderPage(pageNum)
ZoomSelectChange(v) ==
    /\ \E i \in DOMAIN ZoomOptions : ZoomOptions[i] = v
    /\ v # zoomSelect
    /\ zoomSelect' = v
    /\ scale' = ParseFloat(zoomSelect')
    /\ renderPage(pdfDoc, pageNum)
    /\ ev' = Event("zoomSelect", "", "zoom")
    /\ UNCHANGED <<pdfDoc, pdfData, pageNum, retain, helpOpen, loads>>
    /\ UNCHANGED <<canvasVars, touchVars>>
    /\ UNCHANGED pointerVars

\* helpBtn 'click' and helpOverlay 'click'
HelpBtnClick ==
    /\ helpOpen' = TRUE
    /\ ev' = Event("helpBtn", "", "help")
    /\ noRender
    /\ UNCHANGED <<pdfDoc, pdfData, pageNum, scale, zoomSelect, retain, loads>>
    /\ UNCHANGED <<canvasVars, touchVars>>
    /\ UNCHANGED pointerVars

HelpOverlayClick ==
    /\ helpOpen
    /\ helpOpen' = FALSE
    /\ ev' = Event("helpOverlay", "", "closeHelp")
    /\ noRender
    /\ UNCHANGED <<pdfDoc, pdfData, pageNum, scale, zoomSelect, retain, loads>>
    /\ UNCHANGED <<canvasVars, touchVars>>
    /\ UNCHANGED pointerVars

----------------------------------------------------------------------------
(* Pointer overlay, tooltip and click-to-copy                              *)

\* updateOverlays(cssX, cssY): clamp to the canvas rectangle, store the
\* position, write the status line and the tooltip, show the tooltip at the
\* fixed offset, redraw the crosshair
updateOverlays(cssX, cssY) ==
    LET x == Max(0, Min(cssX, rect.w))
        y == Max(0, Min(cssY, rect.h))
    IN  /\ lastCssX' = x
        /\ lastCssY' = y
        /\ coordsDiv' = CoordText(x, y, scale)
        /\ tooltip' = [text |-> CoordText(x, y, scale), shown |-> TRUE,
                       left |-> x + TT_OFFSET, top |-> y + TT_OFFSET]
        /\ crosshair' = [x |-> x, y |-> y]

\* nothing of the controller but the pointer overlay changes
onlyPointer ==
    /\ noRender
    /\ UNCHANGED <<pdfDoc, pdfData, pageNum, scale, zoomSelect, retain, helpOpen,
                   loads, DPR, rect>>
    /\ UNCHANGED <<canvasVars, touchVars>>

\* offsets of a pointer event from the canvas rectangle's corner
PXSet == {0, 50, 108, 150}

PYSet == {0, 40, 72, 120}

\* canvas 'mousemove' at offset (px, py) = (clientX - r.left, clientY - r.top)
MouseMove(px, py) ==
    /\ px \in PXSet /\ px <= rect.w
    /\ py \in PYSet /\ py <= rect.h
    /\ hover' = TRUE
    /\ nudged' = 0
    /\ updateOverlays(px, py)
    /\ ev' = Event("mousemove", "", "overlay")
    /\ onlyPointer
    /\ UNCHANGED <<autoCopy, clipboard, copyTimeout, timers>>

\* clearOverlays, the 'mouseleave' listener: the tooltip is hidden and the
\* overlay canvas cleared
clearOverlays ==
    /\ tooltip' = [tooltip EXCEPT !.shown = FALSE]
    /\ crosshair' = NoCross

MouseLeave ==
    /\ hover
    /\ hover' = FALSE
    /\ clearOverlays
    /\ ev' = Event("mouseleave", "", "clear")
    /\ onlyPointer
    /\ UNCHANGED <<lastCssX, lastCssY, nudged, coordsDiv, autoCopy, clipboard,
                   copyTimeout, timers>>

\* the text the click handler copies: const txt = tooltip.textContent || ''
CopyText == tooltip.text

\* a new timer is started and the pending one is left running
RestartKeeping(ts, h) == ts \cup {h + 1}

\* clearTimeout(copyTimeout); copyTimeout = setTimeout(..., 1200): handles
\* are handed out in increasing order
Restart(ts, h) == (ts \ {h}) \cup {h + 1}

\* canvas 'click'; ok: navigator.clipboard.writeText resolves (a rejection is
\* swallowed by .catch)
Click(ok) ==
    /\ hover
    /\ IF autoCopy
       THEN /\ copyTimeout < MaxCopies
            /\ clipboard' = IF ok THEN CopyText ELSE clipboard
            /\ timers' = Restart(timers, copyTimeout)
            /\ copyTimeout' = copyTimeout + 1
            /\ tooltip' = [tooltip EXCEPT !.text = Copied(CopyText)]
            /\ ev' = Event("click", IF ok THEN "written" ELSE "rejected", "copied")
       ELSE /\ ok
            /\ UNCHANGED <<clipboard, timers, copyTimeout, tooltip>>
            /\ ev' = Event("click", "", "none")
    /\ onlyPointer
    /\ UNCHANGED <<lastCssX, lastCssY, nudged, hover, coordsDiv, crosshair,
                   autoCopy>>

\* the callback of an acknowledgement timer: tooltip.style.display = 'none'
TimerFire(h) ==
    /\ h \in timers
    /\ timers' = timers \ {h}
    /\ tooltip' = [tooltip EXCEPT !.shown = FALSE]
    /\ ev' = Event("timer", IF h = copyTimeout THEN "last" ELSE "earlier", "hide")
    /\ onlyPointer
    /\ UNCHANGED <<lastCssX, lastCssY, nudged, hover, coordsDiv, crosshair,
                   autoCopy, clipboard, copyTimeout>>

\* the user ticks or unticks "auto-copy"
ToggleAutoCopy ==
    /\ autoCopy' = ~autoCopy
    /\ ev' = Event("toggleAutoCopy", "", "none")
    /\ onlyPointer
    /\ UNCHANGED <<lastCssX, lastCssY, nudged, hover, coordsDiv, tooltip,
                   crosshair, clipboard, copyTimeout, timers>>

\* overlayCanvas.width / DPR and overlayCanvas.height / DPR: the buffer is
\* Math.round(css * DPR) pixels, 0 for a NaN viewport, and the HTML default
\* before the first render
OverlayCss ==
    IF overlayCanvas.vp = Blank
        THEN [w |-> DefaultRect.w \div DPR, h |-> DefaultRect.h \div DPR]
    ELSE IF overlayCanvas.vp.scale = NaN THEN [w |-> 0, h |-> 0]
    ELSE CssSize(overlayCanvas.vp.scale)

\* the Alt+Arrow rule: the stored position moves by s = 1 within
\* [0, overlay size], then updateOverlays(lastCssX, lastCssY)
Nudge(key) ==
    /\ nudged < MaxNudge
    /\ nudged' = nudged + 1
    /\ updateOverlays(
         IF key = "ArrowLeft" THEN Max(0, lastCssX - 1)
         ELSE IF key = "ArrowRight" THEN Min(OverlayCss.w, lastCssX + 1)
         ELSE lastCssX,
         IF key = "ArrowUp" THEN Max(0, lastCssY - 1)
         ELSE IF key = "ArrowDown" THEN Min(OverlayCss.h, lastCssY + 1)
         ELSE lastCssY)

----------------------------------------------------------------------------
(* Keyboard dispatcher                                                     *)

Key(k, alt, ctrl, shift) == [key |-> k, alt |-> alt, ctrl |-> ctrl, shift |-> shift]

ArrowKeys == {"ArrowUp", "ArrowDown", "ArrowLeft", "ArrowRight"}

\* a dispatcher that tests the Ctrl+Arrow page keys before anything else
KeyRulePageFirst(e) ==
    IF pdfDoc # Null /\ e.ctrl /\ e.key = "ArrowLeft" THEN "prev"
    ELSE IF pdfDoc # Null /\ e.ctrl /\ e.key = "ArrowRight" THEN "next"
    ELSE "none"

\* The rule of the 'keydown' listener that handles e: the first whose
\* condition holds, in the order of the code
KeyRule(e) ==
    IF e.key = "Escape" /\ helpOpen THEN "closeHelp"
    ELSE IF pdfDoc = Null THEN "nodoc"
    ELSE IF e.key \in (ArrowKeys \cup {"PageUp", "PageDown"}) /\ ~e.alt
        THEN (IF e.ctrl /\ e.key \in {"ArrowUp", "ArrowDown"} THEN "scroll" ELSE "default")
    ELSE IF e.alt /\ ~e.ctrl /\ ~e.shift /\ e.key \in ArrowKeys THEN "nudge"
    ELSE IF (~e.alt /\ ~e.shift /\ e.key \in {"p", "P"}) \/ (e.ctrl /\ e.key = "ArrowLeft")
        THEN "prev"
    ELSE IF (~e.alt /\ ~e.shift /\ e.key \in {"n", "N"}) \/ (e.ctrl /\ e.key = "ArrowRight")
        THEN "next"
    ELSE IF e.key \in {"+", "="} THEN "zoomIn"
    ELSE IF e.key = "-" THEN "zoomOut"
    ELSE IF ~e.alt /\ ~e.ctrl /\ ~e.shift /\ e.key \in {"r", "R"} THEN "reload"
    ELSE IF ~e.alt /\ ~e.ctrl /\ ~e.shift /\ e.key \in {"h", "H"} THEN "help"
    ELSE "none"

\* const idx = zoomSteps.indexOf(scale); if (idx >= 0 && idx < zoomSteps.length - 1)
CanStepUp(s) == IndexOf(s) >= 1 /\ IndexOf(s) < Len(zoomSteps)

\* scale = zoomSteps[idx + 1]
StepUp(s) == zoomSteps[IndexOf(s) + 1]

\* const idx = zoomSteps.indexOf(scale); if (idx > 0)
CanStepDown(s) == IndexOf(s) > 1

\* scale = zoomSteps[0]
StepDownFirst(s) == zoomSteps[1]

\* scale = zoomSteps[idx - 1]
StepDown(s) == zoomSteps[IndexOf(s) - 1]

\* scale = <step>; zoomSelect.value = scale.toString(); renderPage(pageNum)
SetStep(s) ==
    /\ scale' = s
    /\ zoomSelect' = SelectValue(scale')
    /\ renderPage(pdfDoc, pageNum)

\* document 'keydown'.  The scroll rule scrolls the window, which is no part
\* of the controller's state: ev records it.
KeyDown(e) ==
    LET rule == KeyRule(e)
        acts(did) == ev' = Event("keydown", rule, did)
    IN
    /\ helpOpen' = IF rule = "closeHelp" THEN FALSE
                   ELSE IF rule = "help" THEN TRUE ELSE helpOpen
    /\ IF rule = "prev" /\ pageNum > 1
           THEN PageStep(-1) /\ acts("prev") /\ UNCHANGED <<scale, zoomSelect, loads>>
       ELSE IF rule = "next" /\ pageNum < NumPages[pdfDoc]
           THEN PageStep(1) /\ acts("next") /\ UNCHANGED <<scale, zoomSelect, loads>>
       ELSE IF rule = "zoomIn" /\ CanStepUp(scale)
           THEN SetStep(StepUp(scale)) /\ acts("zoomIn") /\ UNCHANGED <<pageNum, loads>>
       ELSE IF rule = "zoomOut" /\ CanStepDown(scale)
           THEN SetStep(StepDown(scale)) /\ acts("zoomOut") /\ UNCHANGED <<pageNum, loads>>
       ELSE IF rule = "reload" /\ pdfData # Null
           THEN /\ Len(loads) < MaxLoads
                /\ loads' = loadPDF(NotLast(loads), pdfData, TRUE)
                /\ acts("reload")
                /\ noRender
                /\ UNCHANGED <<pageNum, scale, zoomSelect>>
       ELSE /\ acts(IF rule \in {"closeHelp", "help", "nudge", "scroll"}
                    THEN rule ELSE "none")
            /\ noRender
            /\ UNCHANGED <<pageNum, scale, zoomSelect, loads>>
    /\ IF rule = "nudge"
       THEN Nudge(e.key)
       ELSE UNCHANGED <<lastCssX, lastCssY, nudged, coordsDiv, tooltip, crosshair>>
    /\ UNCHANGED <<pdfDoc, pdfData, retain>>
    /\ UNCHANGED <<canvasVars, touchVars>>
    /\ UNCHANGED <<DPR, rect, hover, autoCopy, clipboard, copyTimeout, timers>>

----------------------------------------------------------------------------
(* Touch gestures                                                          *)

\* swipe threshold in CSS px
SwipeMin == 50

\* clientX values of a touch
XSet == {0, SwipeMin, SwipeMin + 1}

\* distances between two touches (Math.hypot of the coordinate differences)
DistSet == {0, 9, 10, 11, 12}

\* canvas 'touchstart' with n touches now on the canvas: x is
\* e.touches[0].clientX, d the distance between e.touches[0] and e.touches[1]
TouchStart(n, x, d) ==
    /\ n \in (touches + 1)..MaxFingers
    /\ x \in XSet
    /\ d \in DistSet
    /\ touches' = n
    /\ touchStartX' = IF n = 1 THEN x ELSE touchStartX
    /\ touchStartDist' = IF n = 2 THEN d ELSE touchStartDist
    /\ ev' = Event("touchstart", "", "none")
    /\ noRender
    /\ UNCHANGED <<pdfDoc, pdfData, pageNum, scale, zoomSelect, retain, helpOpen, loads>>
    /\ UNCHANGED canvasVars
    /\ UNCHANGED pointerVars

\* ratio > 1.1 and ratio < 0.9, ratio = dist / touchStartDist: for these
\* integer distances the double comparison is the exact one
PinchOut(d, base) == 10 * d > 11 * base

PinchIn(d, base) == 10 * d < 9 * base

\* the baseline is not reset
KeepBaseline(d, base) == base

\* touchStartDist = dist
NewBaseline(d, base) == d

\* scale *= 1.1 (or /= 1.1); zoomSelect.value = scale.toString();
\* renderPage(pageNum); touchStartDist = dist
PinchStep(s, d) ==
    /\ s = NaN \/ (s.k <= MaxPinch /\ s.k >= 0 - MaxPinch)
    /\ scale' = s
    /\ zoomSelect' = SelectValue(scale')
    /\ renderPage(pdfDoc, pageNum)
    /\ touchStartDist' = NewBaseline(d, touchStartDist)

\* canvas 'touchmove': d is the distance between the two touches
TouchMove(d) ==
    /\ touches >= 1
    /\ d \in DistSet
    /\ touches = 2 \/ d = 0
    /\ IF touches = 2 /\ touchStartDist > 0
       THEN IF PinchOut(d, touchStartDist)
                THEN PinchStep(Times11(scale), d)
                     /\ ev' = Event("touchmove", "prevented", "zoomIn")
            ELSE IF PinchIn(d, touchStartDist)
                THEN PinchStep(Over11(scale), d)
                     /\ ev' = Event("touchmove", "prevented", "zoomOut")
            ELSE /\ ev' = Event("touchmove", "prevented", "none")
                 /\ noRender
                 /\ UNCHANGED <<scale, zoomSelect, touchStartDist>>
       ELSE /\ ev' = Event("touchmove", "", "none")
            /\ noRender
            /\ UNCHANGED <<scale, zoomSelect, touchStartDist>>
    /\ UNCHANGED <<pdfDoc, pdfData, pageNum, retain, helpOpen, loads>>
    /\ UNCHANGED <<canvasVars, touchStartX, touches>>
    /\ UNCHANGED pointerVars

\* dx >= 50
SwipePrevIncl(dx) == dx >= SwipeMin

\* dx > 50 and dx < -50
SwipePrev(dx) == dx > SwipeMin

SwipeNext(dx) == dx < 0 - SwipeMin

\* canvas 'touchend': c fingers were lifted, x is e.changedTouches[0].clientX.
\* With pdfDoc null, pdfDoc.numPages throws and the reset of the last line is
\* not reached.
TouchEnd(c, x) ==
    /\ c \in 1..touches
    /\ x \in XSet
    /\ touches' = touches - c
    /\ LET swipe == touchStartX # NullTouch /\ c = 1
           dx == x - touchStartX
           reset == /\ touchStartX' = NullTouch
                    /\ touchStartDist' = NullTouch
           acts(did) == ev' = Event("touchend", IF swipe THEN "swipe" ELSE "", did)
       IN
       IF swipe /\ SwipePrev(dx) /\ pageNum > 1
           THEN PageStep(-1) /\ reset /\ acts("prev")
       ELSE IF swipe /\ SwipeNext(dx) /\ pdfDoc = Null
           THEN /\ UNCHANGED <<pageNum, touchStartX, touchStartDist>>
                /\ noRender
                /\ acts("throw")
       ELSE IF swipe /\ SwipeNext(dx) /\ pageNum < NumPages[pdfDoc]
           THEN PageStep(1) /\ reset /\ acts("next")
       ELSE /\ UNCHANGED pageNum
            /\ noRender
            /\ reset
            /\ acts("none")
    /\ UNCHANGED <<pdfDoc, pdfData, scale, zoomSelect, retain, helpOpen, loads>>
    /\ UNCHANGED canvasVars
    /\ UNCHANGED pointerVars

----------------------------------------------------------------------------
(* The controller: every event the page can deliver, in any order          *)

KeyInputs ==
    {Key(k, FALSE, FALSE, FALSE) : k \in {"p", "n", "+", "-", "r", "h", "Escape"}}
    \cup {Key("ArrowLeft", FALSE, TRUE, FALSE), Key("ArrowRight", FALSE, TRUE, FALSE)}
    \cup {Key(k, TRUE, FALSE, FALSE) : k \in ArrowKeys}

Next ==
    \/ \E f \in Files : FileChosen(f)
    \/ \E i \in 1..MaxLoads : ReadDone(i)
    \/ \E i \in 1..MaxLoads : DecodeDone(i)
    \/ \E i \in 1..MaxLoads : DecodeFail(i)
    \/ ToggleRetain
    \/ \E i \in 1..MaxRenders : GetPageDone(i)
    \/ \E i \in 1..MaxRenders : RenderDone(i)
    \/ PrevClick
    \/ NextClick
    \/ \E v \in {ZoomOptions[i] : i \in DOMAIN ZoomOptions} : ZoomSelectChange(v)
    \/ HelpBtnClick
    \/ HelpOverlayClick
    \/ \E e \in KeyInputs : KeyDown(e)
    \/ \E n \in 1..MaxFingers, x \in XSet, d \in DistSet : TouchStart(n, x, d)
    \/ \E d \in DistSet : TouchMove(d)
    \/ \E c \in 1..MaxFingers, x \in XSet : TouchEnd(c, x)
    \/ \E px \in PXSet, py \in PYSet : MouseMove(px, py)
    \/ MouseLeave
    \/ \E ok \in BOOLEAN : Click(ok)
    \/ \E h \in 1..MaxCopies : TimerFire(h)
    \/ ToggleAutoCopy

Spec == Init /\ [][Next]_vars

----------------------------------------------------------------------------
(* Parts of the controller.  The full state space is the product of the    *)
(* load pipeline, the render pipeline, the zoom state and the gesture      *)
(* state; each specification below lets the events of one concern happen   *)
(* in every order and leaves out events that write none of its variables.  *)
(* Loads are requested one at a time except in SpecRace, which overlaps    *)
(* them.                                                                   *)

ValidFiles == {f \in Files : NumPages[f] > 0}

\* P, N, R, Ctrl+ArrowLeft, Ctrl+ArrowRight
NavKeys ==
    {Key(k, FALSE, FALSE, FALSE) : k \in {"p", "n", "r"}}
    \cup {Key("ArrowLeft", FALSE, TRUE, FALSE), Key("ArrowRight", FALSE, TRUE, FALSE)}

\* no renderPage call is suspended
Idle == renders = <<>>

\* no load is in flight
NoLoad == loads = <<>>

\* a key that starts no load while one is in flight
OneLoad(e) == e.key = "r" => NoLoad

\* Navigation: loads and reloads, the retention preference, buttons, keys and
\* single-finger swipes.  No handler reads the render pipeline, so the events
\* are delivered between renders here; SpecRender interleaves them with it.
NextNav ==
    \/ \E f \in ValidFiles : Idle /\ NoLoad /\ FileChosen(f)
    \/ \E i \in 1..MaxLoads : Idle /\ ReadDone(i)
    \/ \E i \in 1..MaxLoads : Idle /\ DecodeDone(i)
    \/ Idle /\ ToggleRetain
    \/ Idle /\ PrevClick
    \/ Idle /\ NextClick
    \/ \E e \in NavKeys : Idle /\ OneLoad(e) /\ KeyDown(e)
    \/ \E x \in XSet : Idle /\ TouchStart(1, x, 0)
    \/ \E x \in XSet : Idle /\ TouchEnd(1, x)
    \/ \E i \in 1..MaxRenders : GetPageDone(i)
    \/ \E i \in 1..MaxRenders : RenderDone(i)

SpecNav == Init /\ [][NextNav]_vars

\* Rendering: every event that starts a render without a gesture, and the two
\* completions of each render in every order
NextRender ==
    \/ \E f \in ValidFiles : NoLoad /\ FileChosen(f)
    \/ \E i \in 1..MaxLoads : ReadDone(i)
    \/ \E i \in 1..MaxLoads : DecodeDone(i)
    \/ \E i \in 1..MaxRenders : GetPageDone(i)
    \/ \E i \in 1..MaxRenders : RenderDone(i)
    \/ PrevClick
    \/ NextClick
    \/ \E v \in {ZoomOptions[1], DefaultZoom} : ZoomSelectChange(v)

SpecRender == Init /\ [][NextRender]_vars

\* A state the controller is in after the first file has been loaded and its
\* first page rendered at the default zoom
InitLoaded ==
    /\ pdfDoc = 1
    /\ pdfData = 1
    /\ pageNum = 1
    /\ scale = ParseFloat(DefaultZoom)
    /\ zoomSelect = DefaultZoom
    /\ retain \in BOOLEAN
    /\ helpOpen = FALSE
    /\ loads = <<>>
    /\ renders = <<>>
    /\ transform = "identity"
    /\ pageIndicator = <<1, NumPages[1]>>
    /\ touchStartX = NullTouch
    /\ touchStartDist = NullTouch
    /\ touches = 0
    /\ latest = View(1, 1, NaN)
    /\ ev = Event("renderDone", "", "latest")
    /\ rect = CssSize(scale)
    /\ InitPointer
    /\ pdfCanvas = [vp |-> View(1, 1, scale), pix |-> View(1, 1, scale),
                    w |-> BufferSize(View(1, 1, scale)).w,
                    h |-> BufferSize(View(1, 1, scale)).h]
    /\ overlayCanvas = [vp |-> View(1, 1, scale),
                        w |-> pdfCanvas.w, h |-> pdfCanvas.h]

ZoomKeys == {Key(k, FALSE, FALSE, FALSE) : k \in {"+", "=", "-"}}

\* Zoom: the selector, the zoom keys and the touch gestures on a loaded
\* document, delivered between renders
NextZoom ==
    \/ \E v \in {ZoomOptions[i] : i \in DOMAIN ZoomOptions} : Idle /\ ZoomSelectChange(v)
    \/ \E e \in ZoomKeys : Idle /\ KeyDown(e)
    \/ \E n \in 1..MaxFingers, x \in XSet, d \in DistSet : Idle /\ TouchStart(n, x, d)
    \/ \E d \in DistSet : Idle /\ TouchMove(d)
    \/ \E c \in 1..MaxFingers, x \in XSet : Idle /\ TouchEnd(c, x)
    \/ \E i \in 1..MaxRenders : GetPageDone(i)
    \/ \E i \in 1..MaxRenders : RenderDone(i)

SpecZoom == InitLoaded /\ [][NextZoom]_vars

\* Loading with documents and with bytes the decoder rejects, and the
\* navigation and zoom input on the document that stays
NextLoad ==
    \/ \E f \in Files : Idle /\ NoLoad /\ FileChosen(f)
    \/ \E i \in 1..MaxLoads : Idle /\ ReadDone(i)
    \/ \E i \in 1..MaxLoads : Idle /\ DecodeDone(i)
    \/ \E i \in 1..MaxLoads : Idle /\ DecodeFail(i)
    \/ Idle /\ ToggleRetain
    \/ Idle /\ PrevClick
    \/ Idle /\ NextClick
    \/ \E v \in {ZoomOptions[1], DefaultZoom} : Idle /\ ZoomSelectChange(v)
    \/ \E i \in 1..MaxRenders : GetPageDone(i)
    \/ \E i \in 1..MaxRenders : RenderDone(i)

SpecLoad == Init /\ [][NextLoad]_vars

\* Keys of every rule of the dispatcher, with the modifier combinations
\* that make the conditions of two rules hold at once
DispatchKeys ==
    {Key(k, FALSE, FALSE, FALSE) :
        k \in {"Escape", "ArrowLeft", "PageDown", "p", "n", "+", "=", "-", "r", "h"}}
    \cup {Key(k, FALSE, TRUE, FALSE) : k \in {"ArrowUp", "ArrowLeft", "ArrowRight", "r"}}
    \cup {Key(k, TRUE, FALSE, FALSE) : k \in {"ArrowRight", "n"}}
    \cup {Key("ArrowLeft", TRUE, TRUE, FALSE), Key("p", FALSE, FALSE, TRUE)}

\* The keyboard: every rule of the dispatcher on a loaded document, the help
\* overlay, a pointer position to nudge, and the reload the R key starts
NextKeys ==
    \/ \E e \in DispatchKeys : Idle /\ OneLoad(e) /\ KeyDown(e)
    \/ Idle /\ HelpBtnClick
    \/ Idle /\ HelpOverlayClick
    \/ Idle /\ MouseMove(50, 40)
    \/ \E i \in 1..MaxLoads : Idle /\ DecodeDone(i)
    \/ \E i \in 1..MaxRenders : GetPageDone(i)
    \/ \E i \in 1..MaxRenders : RenderDone(i)

\* no rule of the dispatcher reads the pixel ratio or the retention box
InitKeys == InitLoaded /\ DPR = 1 /\ ~retain

SpecKeys == InitKeys /\ [][NextKeys]_vars

\* Alt+ArrowLeft, Alt+ArrowRight, Alt+ArrowDown
NudgeKeys == {Key(k, TRUE, FALSE, FALSE) : k \in {"ArrowLeft", "ArrowRight", "ArrowDown"}}

\* the retention box is read by loads only
InitHover == InitLoaded /\ ~retain

\* pointer offsets at a corner, inside, and at the far corner of the canvas
\* at the default zoom
HoverPoints == {<<0, 0>>, <<108, 72>>, <<150, 120>>}

\* The pointer overlay: pointer moves and leaves, nudges, and the zoom
\* selector resizing the canvas under the pointer
NextHover ==
    \/ \E p \in HoverPoints : Idle /\ MouseMove(p[1], p[2])
    \/ Idle /\ MouseLeave
    \/ \E e \in NudgeKeys : Idle /\ KeyDown(e)
    \/ \E v \in {ZoomOptions[1], DefaultZoom} : Idle /\ ZoomSelectChange(v)
    \/ \E i \in 1..MaxRenders : GetPageDone(i)
    \/ \E i \in 1..MaxRenders : RenderDone(i)

SpecHover == InitHover /\ [][NextHover]_vars

\* the clipboard code reads neither the pixel ratio nor the retention box
InitCopy == InitLoaded /\ DPR = 1 /\ ~retain

\* Click-to-copy: pointer moves and leaves, the auto-copy box, clicks whose
\* clipboard write succeeds or fails, and the acknowledgement timer
NextCopy ==
    \/ \E p \in HoverPoints : MouseMove(p[1], p[2])
    \/ MouseLeave
    \/ \E ok \in BOOLEAN : Click(ok)
    \/ \E h \in 1..MaxCopies : TimerFire(h)
    \/ ToggleAutoCopy

SpecCopy == InitCopy /\ [][NextCopy]_vars

\* Overlapping loads: file selections and reloads requested while an earlier
\* load is still reading or decoding, completing in every order
NextRace ==
    \/ \E f \in ValidFiles : Idle /\ FileChosen(f)
    \/ \E i \in 1..MaxLoads : Idle /\ ReadDone(i)
    \/ \E i \in 1..MaxLoads : Idle /\ DecodeDone(i)
    \/ Idle /\ KeyDown(Key("r", FALSE, FALSE, FALSE))
    \/ Idle /\ NextClick
    \/ \E i \in 1..MaxRenders : GetPageDone(i)
    \/ \E i \in 1..MaxRenders : RenderDone(i)

SpecRace == Init /\ [][NextRace]_vars

\* Resizing: selector changes and pinch steps arriving while earlier renders
\* are still pending, and the completions of the renders in every order
NextResize ==
    \/ \E v \in {ZoomOptions[1], DefaultZoom} : ZoomSelectChange(v)
    \/ \E d \in DistSet : TouchStart(2, 0, d)
    \/ \E d \in DistSet : TouchMove(d)
    \/ TouchEnd(2, 0)
    \/ \E i \in 1..MaxRenders : GetPageDone(i)
    \/ \E i \in 1..MaxRenders : RenderDone(i)

SpecResize == InitHover /\ [][NextResize]_vars

\* Zoom across loads: the selector, the zoom keys and two-finger pinches on
\* a loaded document, and reloads with and without retention
NextRezoom ==
    \/ \E v \in {ZoomOptions[1], DefaultZoom} : Idle /\ ZoomSelectChange(v)
    \/ \E e \in ZoomKeys : Idle /\ KeyDown(e)
    \/ \E d \in DistSet : Idle /\ TouchStart(2, 0, d)
    \/ \E d \in DistSet : Idle /\ TouchMove(d)
    \/ Idle /\ TouchEnd(2, 0)
    \/ Idle /\ NoLoad /\ KeyDown(Key("r", FALSE, FALSE, FALSE))
    \/ \E i \in 1..MaxLoads : Idle /\ DecodeDone(i)
    \/ \E i \in 1..MaxRenders : GetPageDone(i)
    \/ \E i \in 1..MaxRenders : RenderDone(i)

SpecRezoom == InitLoaded /\ [][NextRezoom]_vars

----------------------------------------------------------------------------
(* Properties                                                              *)

TypeOK ==
    /\ pdfDoc \in {Null} \cup Files
    /\ pdfData \in {Null} \cup Files
    /\ pageNum \in Nat
    /\ scale \in ScaleValues
    /\ retain \in BOOLEAN
    /\ helpOpen \in BOOLEAN
    /\ Len(loads) <= MaxLoads
    /\ Len(renders) <= MaxRenders
    /\ transform \in {"identity", "dpr"}
    /\ touches \in 0..MaxFingers

Loaded == pdfDoc # Null

PageCount == NumPages[pdfDoc]

\* C1: once a document is loaded, the page index is within [1, pageCount] in
\* every reachable state, whatever navigation, swipes, loads and reloads
\* happened, also when a load with retention delivers fewer pages than the
\* page index held
PageInRange == Loaded => (pageNum >= 1 /\ pageNum <= PageCount)

\* a retaining load has clamped the page index into a shorter document
PageInRangeWitness ==
    /\ Loaded
    /\ ev.op = "decodeDone"
    /\ ev.did = "clamped"
    /\ pageNum = PageCount

\* C2: when no render is pending any more, the content canvas has the size
\* and the pixels of the latest issued request, whatever the order in which
\* the getPage and render promises of overlapping requests resolved
LatestRenderShown ==
    (Idle /\ latest # Blank) =>
        /\ pdfCanvas.vp = View(latest.doc, latest.num, scale)
        /\ pdfCanvas.pix = View(latest.doc, latest.num, scale)

\* C3: at most one renderPage call is suspended between its resize of the
\* canvases and the completion of its rasterization
OneRenderInFlight ==
    Cardinality({i \in DOMAIN renders : renders[i].stage = "render"}) <= 1

\* C4: when no render is pending, the page indicator shows the current page
\* index, which is the page of the latest issued request, and the page count
\* of the current document
IndicatorCurrent ==
    (Idle /\ Loaded) =>
        /\ pageIndicator = <<pageNum, PageCount>>
        /\ latest.num = pageNum
        /\ latest.doc = pdfDoc

\* an earlier request completed after the latest one, and nothing is pending
IndicatorCurrentWitness ==
    /\ Idle
    /\ Loaded
    /\ ev.op = "renderDone"
    /\ ev.did = "stale"
    /\ pageNum > 1

\* C5: a single-touch sequence from x = s to x = e on a loaded document
\* changes the page index by -1 when e - s > 50 and the page is not the first,
\* by +1 when e - s < -50 and the page is not the last, and otherwise leaves
\* it unchanged; with |e - s| <= 50 it issues no render either
SwipeStep ==
    [][\A x \in XSet :
        (TouchEnd(1, x) /\ touches = 1 /\ touchStartX # NullTouch /\ Loaded) =>
            LET dx == x - touchStartX IN
            /\ (dx > 50 /\ pageNum > 1) => pageNum' = pageNum - 1
            /\ (dx < -50 /\ pageNum < PageCount) => pageNum' = pageNum + 1
            /\ (dx > 50 /\ pageNum = 1) => pageNum' = pageNum
            /\ (dx < -50 /\ pageNum = PageCount) => pageNum' = pageNum
            /\ (dx <= 50 /\ dx >= -50) => (pageNum' = pageNum /\ renders' = renders)
      ]_vars

\* a swipe to the left has moved a loaded document to its next page
SwipeStepWitness ==
    /\ Loaded
    /\ ev = Event("touchend", "swipe", "next")
    /\ pageNum = 2
    /\ touches = 0

Member(s) == \E i \in DOMAIN ZoomOptions : s = [m |-> ZoomOptions[i], k |-> 0]

Pos(s) == CHOOSE i \in DOMAIN ZoomOptions : ZoomOptions[i] = s.m

\* C6: during a pinch, a touch-move whose distance is more than 1.1 times the
\* baseline multiplies the scale by 1.1 once and makes that distance the new
\* baseline; a touch-move whose ratio to the baseline is within [0.9, 1.1]
\* changes neither scale nor baseline and starts no render
PinchRatchet ==
    [][\A d \in DistSet :
        (TouchMove(d) /\ touches = 2 /\ touchStartDist > 0) =>
            /\ (10 * d > 11 * touchStartDist) =>
                    /\ scale' = IF scale = NaN THEN NaN
                                ELSE [m |-> scale.m, k |-> scale.k + 1]
                    /\ touchStartDist' = d
                    /\ Len(renders') = Len(renders) + 1
            /\ (10 * d <= 11 * touchStartDist /\ 10 * d >= 9 * touchStartDist) =>
                    /\ scale' = scale
                    /\ touchStartDist' = touchStartDist
                    /\ renders' = renders
      ]_vars

\* a zoom-in step of a pinch has moved the baseline to the distance 12
PinchRatchetWitness ==
    /\ ev = Event("touchmove", "prevented", "zoomIn")
    /\ touches = 2
    /\ touchStartDist = 12
    /\ scale.k = 1

\* C7: with the scale at a member of the zoom step set, '+' and '=' move it to
\* the next member, from where '-' leads back to the original one; '-' moves
\* it to the previous member; '+' at the top member and '-' at the bottom
\* member change nothing and start no render
StepRoundTrip ==
    [][\A e \in ZoomKeys :
        (KeyDown(e) /\ Loaded /\ Member(scale)) =>
            IF e.key = "-"
            THEN IF Pos(scale) > 1
                 THEN scale' = [m |-> ZoomOptions[Pos(scale) - 1], k |-> 0]
                 ELSE scale' = scale /\ renders' = renders
            ELSE IF Pos(scale) < Len(ZoomOptions)
                 THEN /\ scale' = [m |-> ZoomOptions[Pos(scale) + 1], k |-> 0]
                      /\ CanStepDown(scale')
                      /\ StepDown(scale') = scale
                 ELSE scale' = scale /\ renders' = renders
      ]_vars

\* '+' was pressed at the top member and did nothing
StepRoundTripWitness ==
    /\ ev = Event("keydown", "zoomIn", "none")
    /\ scale = [m |-> ZoomOptions[Len(ZoomOptions)], k |-> 0]
    /\ Idle

RECURSIVE Pow(_, _)
Pow(b, n) == IF n = 0 THEN 1 ELSE b * Pow(b, n - 1)

\* a < b for two scales that are numbers: m * 1.1^k compared exactly
Less(a, b) ==
    IF a.k >= b.k
    THEN a.m * Pow(11, a.k - b.k) < b.m * Pow(10, a.k - b.k)
    ELSE a.m * Pow(10, b.k - a.k) < b.m * Pow(11, b.k - a.k)

Above(s) == {i \in DOMAIN ZoomOptions : Less(s, [m |-> ZoomOptions[i], k |-> 0])}

Below(s) == {i \in DOMAIN ZoomOptions : Less([m |-> ZoomOptions[i], k |-> 0], s)}

\* C8: with the scale not a member of the zoom step set (after a pinch), '+'
\* moves it to the smallest member above it and '-' to the largest member
\* below it; nothing changes only when there is no such member
StepToNeighbour ==
    [][\A e \in ZoomKeys :
        (KeyDown(e) /\ Loaded /\ scale # NaN /\ ~Member(scale)) =>
            IF e.key = "-"
            THEN IF Below(scale) = {} THEN scale' = scale
                 ELSE \E i \in Below(scale) :
                        /\ \A j \in Below(scale) : j <= i
                        /\ scale' = [m |-> ZoomOptions[i], k |-> 0]
            ELSE IF Above(scale) = {} THEN scale' = scale
                 ELSE \E i \in Above(scale) :
                        /\ \A j \in Above(scale) : i <= j
                        /\ scale' = [m |-> ZoomOptions[i], k |-> 0]
      ]_vars

\* C9: the completion of a reload leaves the page index as it was, whatever
\* the retention preference
ReloadKeepsPage ==
    [][\A i \in 1..MaxLoads :
        (DecodeDone(i) /\ loads[i].reload) => pageNum' = pageNum
      ]_vars

\* C10: a successful load sets the page index to 1 when retention was not
\* requested, and to min(max(1, index held at decode completion), pageCount of
\* the new document) when it was
LoadSetsPage ==
    [][\A i \in 1..MaxLoads :
        DecodeDone(i) =>
            LET n == NumPages[loads[i].file]
                held == IF pageNum < 1 THEN 1 ELSE pageNum
            IN  pageNum' = IF ~loads[i].keep THEN 1
                           ELSE IF held > n THEN n ELSE held
      ]_vars

\* a retaining load has kept a page index above 1
LoadSetsPageWitness ==
    /\ ev.op = "decodeDone"
    /\ ev.did = "keep"
    /\ pageNum > 1

\* what a load must leave alone until its decode has succeeded
loadedState == <<pdfDoc, pageNum, scale, zoomSelect, pdfCanvas, overlayCanvas,
                 pageIndicator, rect>>

\* C11: a load whose bytes the decoder rejects changes neither the document
\* handle, the page index, the scale nor the rendered canvases at any of its
\* steps (file chosen, bytes read, decode failed), and right after the
\* failure the next-page button and the zoom selector act on the document
\* that was there before
FailedLoadKeepsState ==
    [][/\ \A f \in Files : FileChosen(f) => UNCHANGED loadedState
       /\ \A i \in 1..MaxLoads :
            (i \in DOMAIN loads /\ loads[i].stage = "read" /\ ReadDone(i))
                => UNCHANGED loadedState
       /\ \A i \in 1..MaxLoads :
            (/\ i \in DOMAIN loads
             /\ loads[i].stage = "decode"
             /\ NumPages[loads[i].file] = 0
             /\ loads' = Remove(loads, i))
                => UNCHANGED loadedState
       /\ (ev.op = "decodeFail" /\ Loaded /\ pageNum < PageCount /\ NextClick)
            => (pageNum' = pageNum + 1 /\ latest' = View(pdfDoc, pageNum', NaN))
       /\ \A v \in {ZoomOptions[1], DefaultZoom} :
            (ev.op = "decodeFail" /\ Loaded /\ ZoomSelectChange(v))
                => (scale' = Num(v) /\ latest' = View(pdfDoc, pageNum, NaN))
      ]_vars

\* a decode has failed while page 2 of the earlier document is shown
FailedLoadKeepsStateWitness ==
    /\ ev.op = "decodeFail"
    /\ pdfDoc = 1
    /\ pageNum = 2
    /\ pageIndicator = <<2, NumPages[1]>>
    /\ pdfCanvas.pix = View(1, 2, scale)

\* C12: with a document loaded, Ctrl+ArrowLeft decrements the page index when
\* it is above 1 and Ctrl+ArrowRight increments it when it is below the page
\* count, as P and N do
CtrlArrowTurnsPage ==
    [][/\ (KeyDown(Key("ArrowLeft", FALSE, TRUE, FALSE)) /\ Loaded /\ pageNum > 1)
            => pageNum' = pageNum - 1
       /\ (KeyDown(Key("ArrowRight", FALSE, TRUE, FALSE)) /\ Loaded
           /\ pageNum < PageCount)
            => pageNum' = pageNum + 1
      ]_vars

\* the stored pointer position and what updateOverlays draws from it
pointerState == <<lastCssX, lastCssY, coordsDiv, tooltip, crosshair>>

\* the number of the dispatcher's concerns a step changes: help overlay,
\* window scroll, pointer, page index, scale, reload
Touched ==
    Cardinality({c \in {"help", "scroll", "pointer", "page", "scale", "reload"} :
        \/ c = "help" /\ helpOpen' # helpOpen
        \/ c = "scroll" /\ ev'.did = "scroll"
        \/ c = "pointer" /\ pointerState' # pointerState
        \/ c = "page" /\ pageNum' # pageNum
        \/ c = "scale" /\ scale' # scale
        \/ c = "reload" /\ loads' # loads})

PointerInCanvas ==
    /\ lastCssX >= 0 /\ lastCssX <= rect.w
    /\ lastCssY >= 0 /\ lastCssY <= rect.h

\* C15: a click with auto-copy enabled writes to the clipboard the coordinate
\* text of the current pointer position and scale, also when the "Copied"
\* acknowledgement of an earlier click is still shown; a click with auto-copy
\* disabled writes nothing and leaves tooltip and timer alone
ClickCopiesCoordinates ==
    [][/\ (Click(TRUE) /\ autoCopy)
            => clipboard' = CoordText(lastCssX, lastCssY, scale)
       /\ (Click(TRUE) /\ ~autoCopy)
            => UNCHANGED <<clipboard, tooltip, timers, copyTimeout>>
      ]_vars

\* h hundredths of a centimetre is (px / s) * 0.0352778 cm rounded to two
\* decimals, s a discrete scale: |h - px * 3.52778 / s| <= 1/2
RoundedCm(h, px, s) ==
    LET diff == 2 * h * 1000 * s.m - 2 * px * 352778
    IN  diff <= 1000 * s.m /\ 0 - diff <= 1000 * s.m

\* C16: right after a pointer move or a nudge, the tooltip and the status
\* line show ((x / s) * 0.0352778, (y / s) * 0.0352778) rounded to two
\* decimals for the stored offset (x, y) and the scale s, whatever the device
\* pixel ratio; offset (108, 72) at scale 1.5 gives "(2.54cm,1.69cm)"
CoordinatePair ==
    (ev.op = "mousemove" \/ (ev.op = "keydown" /\ ev.how = "nudge")) =>
        /\ tooltip.text.pre = 0
        /\ RoundedCm(tooltip.text.x, lastCssX, scale)
        /\ RoundedCm(tooltip.text.y, lastCssY, scale)
        /\ coordsDiv = tooltip.text
        /\ (lastCssX = 108 /\ lastCssY = 72 /\ scale = Num(150)) =>
                tooltip.text = [pre |-> 0, x |-> 254, y |-> 169]

\* "(2.54cm,1.69cm)" is shown for offset (108, 72) at scale 1.5 and DPR 2
CoordinatePairWitness ==
    /\ ev.op = "mousemove"
    /\ DPR = 2
    /\ scale = Num(150)
    /\ lastCssX = 108
    /\ lastCssY = 72
    /\ tooltip.text = [pre |-> 0, x |-> 254, y |-> 169]

\* C17: the pointer leaving the canvas hides the tooltip and clears the
\* overlay, and the step after it, unless it is a pointer move, leaves them
\* hidden and cleared: an Alt+Arrow nudge does not bring the last position
\* back
LeaveClearsPointer ==
    [][/\ MouseLeave => (~tooltip'.shown /\ crosshair' = NoCross)
       /\ (ev.op = "mouseleave" /\ ~hover')
            => (~tooltip'.shown /\ crosshair' = NoCross)
      ]_vars

\* C18: at most one acknowledgement timer is pending, and it is the one the
\* last copy started: a copy cancels the timer of the copy before it, so the
\* timer that fires and ends the acknowledgement is never an earlier one
OneAckTimer ==
    /\ Cardinality(timers) <= 1
    /\ timers \subseteq {copyTimeout}
    /\ ev.op = "timer" => (ev.how = "last" /\ timers = {})

\* a second copy was made while the acknowledgement of the first was shown
\* and its timer pending
OneAckTimerWitness ==
    /\ ev.op = "click"
    /\ tooltip.shown
    /\ tooltip.text.pre = 2
    /\ copyTimeout = 2
    /\ timers = {2}

\* C19: when the acknowledgement timer fires while the pointer is over the
\* canvas, the tooltip stays visible and shows the coordinate text of the
\* pointer position again; in particular a tooltip that a pointer move after
\* the click has refreshed is not hidden
AckRevertsTooltip ==
    [][\A h \in 1..MaxCopies :
        (TimerFire(h) /\ hover) =>
            /\ tooltip'.shown
            /\ tooltip'.text = CoordText(lastCssX, lastCssY, scale)
      ]_vars

\* C20: while the pointer is over the canvas, the tooltip shown for it lies
\* within the canvas rectangle.  The tooltip's size comes from the style
\* sheet; whatever it is, the rectangle is inside only if its top left
\* corner is.
TooltipInCanvas ==
    (hover /\ tooltip.shown) =>
        /\ tooltip.left >= 0 /\ tooltip.left <= rect.w
        /\ tooltip.top >= 0 /\ tooltip.top <= rect.h

\* C21: a touch-start that takes the touch count from one to two discards
\* the single-touch session: the start position of the first finger is gone,
\* and a touch sequence that has put two fingers down does not change the
\* page index when fingers are lifted
PinchDiscardsSwipe ==
    [][/\ \A x \in XSet, d \in DistSet :
            (TouchStart(2, x, d) /\ touches = 1) => touchStartX' = NullTouch
       /\ \A c \in 1..MaxFingers, x \in XSet :
            (TouchEnd(c, x) /\ touchStartDist # NullTouch) => pageNum' = pageNum
      ]_vars

\* C22: every touch-move with exactly two active touches suppresses the
\* platform's default behaviour, whether or not a pinch baseline is held
TwoTouchMovePrevented ==
    [][\A d \in DistSet :
        (TouchMove(d) /\ touches = 2) => ev'.how = "prevented"
      ]_vars

\* n = Math.round(pts * s * DPR) for the scale s = m * 1.1^k / 100:
\* n - 1/2 <= pts * s * DPR < n + 1/2
IsRound(n, pts, s) ==
    LET e == IF s.k >= 0 THEN s.k ELSE 0 - s.k
        num == pts * s.m * DPR * Pow(IF s.k >= 0 THEN 11 ELSE 10, e)
        den == 100 * Pow(IF s.k >= 0 THEN 10 ELSE 11, e)
    IN  2 * den * n <= 2 * num + den /\ 2 * num + den < 2 * den * (n + 1)

\* C23: once a render has resized the canvases, the content buffer and the
\* overlay buffer have the same pixel dimensions, both were sized for the same
\* page and scale, and the dimensions are round(cssWidth * DPR) by
\* round(cssHeight * DPR) for that scale, however the continuations of
\* overlapping renders interleave
BuffersAligned ==
    pdfCanvas.vp # Blank =>
        /\ overlayCanvas.vp = pdfCanvas.vp
        /\ overlayCanvas.w = pdfCanvas.w
        /\ overlayCanvas.h = pdfCanvas.h
        /\ IsRound(pdfCanvas.w, PageSize.w, pdfCanvas.vp.scale)
        /\ IsRound(pdfCanvas.h, PageSize.h, pdfCanvas.vp.scale)

\* two renders are rasterizing at once, each has resized the canvases for its
\* own scale, the later one for a pinch scale at which the buffer width is
\* rounded up: it is not twice the CSS width in whole pixels
BuffersAlignedWitness ==
    /\ Len(renders) = 2
    /\ renders[1].stage = "render"
    /\ renders[2].stage = "render"
    /\ renders[1].vp.scale # renders[2].vp.scale
    /\ pdfCanvas.vp = renders[2].vp
    /\ pdfCanvas.vp.scale.k # 0
    /\ DPR = 2
    /\ pdfCanvas.w # 2 * rect.w

\* C24: the content context's transform is the DPR scale as long as any
\* render is rasterizing, and the identity whenever no render is in flight:
\* a render that completes does not reset the transform under another render
\* that is still rasterizing
TransformScoped ==
    /\ (\E i \in DOMAIN renders : renders[i].stage = "render") => transform = "dpr"
    /\ renders = <<>> => transform = "identity"

\* C25: of two load requests whose decodes both succeed, the one issued
\* later decides the document handle, the page count and the page index,
\* whichever decode finishes first: a decode that finishes after the decode
\* of a later request changes none of them
LaterLoadWins ==
    [][\A i \in 1..MaxLoads :
        (/\ DecodeDone(i)
         /\ ~loads[i].last
         /\ \A j \in DOMAIN loads : ~loads[j].last)
        => (pdfDoc' = pdfDoc /\ pageNum' = pageNum)
      ]_vars

\* C26: while no document has been loaded, every input (the prev and next
\* buttons, keys, the zoom selector, touch sequences, a click) leaves the
\* page index at 1 and the document handle absent, and its handler raises no
\* error
NoDocumentInputsInert ==
    [][(/\ pdfDoc = Null
        /\ \/ PrevClick
           \/ NextClick
           \/ \E e \in KeyInputs \cup NavKeys : KeyDown(e)
           \/ \E v \in {ZoomOptions[i] : i \in DOMAIN ZoomOptions} : ZoomSelectChange(v)
           \/ \E n \in 1..MaxFingers, x \in XSet, d \in DistSet : TouchStart(n, x, d)
           \/ \E d \in DistSet : TouchMove(d)
           \/ \E c \in 1..MaxFingers, x \in XSet : TouchEnd(c, x)
           \/ \E ok \in BOOLEAN : Click(ok))
       => (pdfDoc' = Null /\ pageNum' = 1 /\ ev'.did # "throw")
      ]_vars

\* C27: the scale is a positive finite number in every reachable state,
\* after any sequence of selector changes, discrete steps, pinch steps and
\* loads
ScalePositive == scale # NaN /\ scale.m > 0

====
